---- MODULE Spec2Model ----
(***************************************************************************)
(* ProgressiveSpatioTemporalBLNLearner (OpenDR, landmark based facial      *)
(* expression recognition): the learner's state, its fit / save / load /   *)
(* init_model / infer / optimize operations and the progressive topology   *)
(* search network_builder, as a state machine.                             *)
(*                                                                         *)
(* The deep-learning framework is abstracted: a training run is a loss     *)
(* drawn from 0..MaxLoss, a model is the topology it was built for plus    *)
(* its train/eval mode, a weights file is the topology of the model whose  *)
(* state_dict it holds.  Losses are integers; a threshold is the rational  *)
(* n / ThDen, and every comparison of a relative improvement with a        *)
(* threshold is done by cross-multiplication, exactly.                     *)
(***************************************************************************)
EXTENDS Integers, Sequences, FiniteSets, TLC

\* ------------------------------------------------------------------ bounds
MaxLayers == 2
MaxBlocks == 2
MaxLoss == 2
MaxEpochs == 2
MaxThNum == 1
ThDen == 2
MaxStartLen == 1
MaxAcc == 1
MaxPeers == 2

\* The loss variables of network_builder start at 1e+10; TLC's integers are
\* 32 bit wide, so the model starts them at 10^9, which also exceeds every
\* loss the model draws.
InitLoss == 1000000000

\* ----------------------------------------------------------------- values
None == [none |-> TRUE]
NoneName == "<None>"

OptimizerNames == {"sgd", "adam", "rmsprop"}
DatasetNames == {NoneName, "CASIA", "casia", "CELEB"}
Losses == 0..MaxLoss
\* An accuracy is a number of validation samples classified right.
Accuracies == 0..MaxAcc
Thresholds == 0..MaxThNum

\* A file name is <<folder, l, b>>: a checkpoint of fit is
\* <parent_dir>/<experiment_name>_checkpoints/<experiment_name>-<l>-<b>.
UserName == <<"user", 0, 0>>
PretrainedName == <<"pretrained", 0, 0>>
UserNames == {UserName, PretrainedName}

Last(s) == s[Len(s)]
Front(s) == SubSeq(s, 1, Len(s) - 1)

VARIABLES
    cfg,                \* the constructor's arguments kept as attributes
    alive,              \* the constructor returned an instance
    topology,           \* self.topology
    model,              \* self.model: None or [topology, training, dropout]
    ort_session,        \* self.ort_session: None or [path]
    model_train_state,  \* self.model_train_state
    optimizer_,         \* self.optimizer_: "unset" until fit sets it
    classes_dict,       \* self.classes_dict: "unset" or the dataset's classes
    best_acc,           \* self.best_acc
    disk,               \* the files: json sidecars, .pt, .onnx, temp onnx, Topology.npy
    pc,                 \* position inside network_builder ("idle": not running)
    layer_iter, block_iter,
    loss_layer_old, loss_block_old, loss_layer_new, loss_block_new,
    stopped,            \* history: layers of this run whose block growth was stopped
    nfit,               \* history: fit calls of this network_builder run
    start_topology,     \* history: the topology network_builder was called with
    run_saved,          \* history: the checkpoint names fit saved in this run
    kept,               \* history: the topology as the run's last decision left it
    kept_loss,          \* history: per layer of this run, the loss of its last kept block
    last,               \* the most recent call: its name, what it raised, what it wrote
    state_dict,         \* per parameter key of the model: whose value it holds
    weights,            \* the parameter keys of the checkpoint __load_from_pt reads
    datasets,           \* the dataset directories and the files in them
    by_default,         \* self.topology is the list object of __init__'s default
    peers               \* the learners constructed after this one, in order

vars == <<cfg, alive, topology, model, ort_session, model_train_state, optimizer_,
          classes_dict, best_acc, disk, pc, layer_iter, block_iter, loss_layer_old,
          loss_block_old, loss_layer_new, loss_block_new, stopped, nfit, start_topology,
          run_saved, kept, kept_loss, last, state_dict, weights, datasets, by_default,
          peers>>

\* What only download, the parameter-by-parameter view of load and the
\* construction of further learners change.
aside == <<state_dict, weights, datasets, by_default, peers>>

learner == <<topology, model, ort_session, model_train_state, optimizer_, classes_dict,
             best_acc>>
locals == <<layer_iter, block_iter, loss_layer_old, loss_block_old, loss_layer_new,
            loss_block_new, stopped, nfit, start_topology, run_saved, kept, kept_loss>>

\* What a call leaves behind: err is the exception class it raised ("none":
\* it returned), msg the message's subject, name the model name it was given,
\* written the files it wrote, trained the number of training passes (epochs)
\* it ran, saved_at the number of training passes done at each save of fit,
\* round_trip whether a load closes a save / drop the model / load sequence,
\* arg the mode download was given ("monte_carlo_dropout" when infer or
\* eval was asked for Monte Carlo dropout), eval_results and best_accuracy what fit
\* returned under these keys.
NoName == <<"", 0, 0>>

Outcome(op, err, msg, name, written, trained) ==
    [op |-> op, err |-> err, msg |-> msg, name |-> name, written |-> written,
     trained |-> trained, saved_at |-> <<>>, round_trip |-> FALSE, arg |-> "",
     eval_results |-> <<>>, best_accuracy |-> 0]


\* ------------------------------------------------------------- __init__
\* str.lower(), lines 106-110, as a table over the names a caller may write
\* for the three datasets, in upper, lower and capitalised form, and over
\* the unsupported name of the model.  Outside the table only names already
\* in lower case are meant.
Lower(name) ==
    CASE name \in {"CASIA", "Casia", "casia"} -> "casia"
      [] name \in {"CK+", "Ck+", "ck+"} -> "ck+"
      [] name \in {"AFEW", "Afew", "afew"} -> "afew"
      [] name \in {"CELEB", "Celeb", "celeb"} -> "celeb"
      [] OTHER -> name

\* __init__, lines 99-101: the guard for a missing dataset name builds its
\* message as None + str, which raises TypeError before ValueError is made.
ConstructErr(dataset_name) ==
    IF dataset_name = NoneName THEN "TypeError" ELSE "none"

\* __init__, lines 106-111: an if/elif chain without an else.
ClassesDict(dataset_name) ==
    IF Lower(dataset_name) = "casia" THEN "CASIA_CLASSES"
    ELSE IF Lower(dataset_name) = "ck+" THEN "CK_CLASSES"
    ELSE IF Lower(dataset_name) = "afew" THEN "AFEW_CLASSES"
    ELSE "unset"

\* ----------------------------------------------------------- init_model
NewModel(topo) == [topology |-> topo, training |-> TRUE, dropout |-> TRUE]

\* Mutation: init_model without its check of the topology.
InitModelUnchecked(topo, m) ==
    [err |-> "none", msg |-> "", model |-> NewModel(topo)]

InitModelResult(topo, m) ==
    IF Len(topo) = 0
    THEN [err |-> "ValueError", msg |-> "topology is empty", model |-> m]
    ELSE [err |-> "none", msg |-> "", model |-> NewModel(topo)]

\* ------------------------------------------------------------------ save
MetadataKeys == {"model_paths", "framework", "format", "has_data",
                 "inference_params", "optimized", "optimizer_info"}

\* Mutation: the sidecar's optimized flag left false on both branches.
MetadataNeverOptimized(path, format, optimized) ==
    [model_paths |-> <<path>>, framework |-> "pytorch", format |-> format,
     has_data |-> FALSE, inference_params |-> <<>>, optimized |-> FALSE,
     optimizer_info |-> <<>>]

Metadata(path, format, optimized) ==
    [model_paths |-> <<path>>, framework |-> "pytorch", format |-> format,
     has_data |-> FALSE, inference_params |-> <<>>, optimized |-> optimized,
     optimizer_info |-> <<>>]

FilePath(name, ext) == <<name, ext>>

\* state_dict() of a model, as a weights file holds it.
StateDict(m) == [topology |-> m.topology]

SaveResult(m, ort, d, name) ==
    IF m = None /\ ort = None
    THEN [err |-> "UserWarning", msg |-> "no model is loaded", disk |-> d, written |-> <<>>]
    ELSE IF ort = None
    THEN [err |-> "none", msg |-> "",
          disk |-> [d EXCEPT !.pt = (name :> StateDict(m)) @@ @,
                             !.json = (name :> Metadata(FilePath(name, "pt"), "pt", FALSE)) @@ @],
          written |-> <<FilePath(name, "pt"), FilePath(name, "json")>>]
    ELSE IF d.temp = None
    THEN [err |-> "FileNotFoundError", msg |-> "onnx_model_temp.onnx", disk |-> d,
          written |-> <<>>]
    ELSE [err |-> "none", msg |-> "",
          disk |-> [d EXCEPT !.onnx = (name :> d.temp) @@ @,
                             !.json = (name :> Metadata(FilePath(name, "onnx"), "onnx", TRUE)) @@ @],
          written |-> <<FilePath(name, "onnx"), FilePath(name, "json")>>]

\* ------------------------------------------------------------------ load
\* A model is the topology it was built for; the copy of the checkpoint's
\* tensors into the model, parameter by parameter, is CopyKeys below.
\* Mutation: __load_from_pt without the init_model of lines 755-756.
LoadWeightsNoBuild(topo, m, ort) ==
    IF m = None /\ Len(topo) = 0
    THEN [err |-> "ValueError", msg |-> "the model is not built yet",
          model |-> m, ort_session |-> ort]
    ELSE IF Len(topo) = 0
    THEN [err |-> "IndexError", msg |-> "topology[-1]", model |-> m, ort_session |-> ort]
    ELSE [err |-> "none", msg |-> "", model |-> m, ort_session |-> ort]

\* __load_from_pt once torch.load has read the file, lines 743-785.
LoadWeights(topo, m, ort) ==
    IF m = None /\ Len(topo) = 0
    THEN [err |-> "ValueError", msg |-> "the model is not built yet",
          model |-> m, ort_session |-> ort]
    ELSE IF Len(topo) = 0
    THEN [err |-> "IndexError", msg |-> "topology[-1]", model |-> m, ort_session |-> ort]
    ELSE IF m = None
    THEN [err |-> "none", msg |-> "", model |-> InitModelResult(topo, m).model,
          ort_session |-> ort]
    ELSE [err |-> "none", msg |-> "", model |-> m, ort_session |-> ort]

\* The parameters of a model, in state_dict order, named by the part of the
\* key that lines 759-779 look for; fc.bias is a parameter they do not name.
ParamKeys == <<"rand_graph", "g_conv", "bln_residual", "tcn.t_conv.bias", "bn.weight",
               "tcn.t_conv.weight", "fc.weight", "fc.bias">>

Parameters == {ParamKeys[i] : i \in 1..Len(ParamKeys)}

\* pattern in key, for the keys of ParamKeys.
Occurs(pattern, key) ==
    \/ pattern = key
    \/ pattern = "residual" /\ key = "bln_residual"

\* Python's a or b or ...: the first operand that is truthy, and a string
\* that is not empty is truthy.
RECURSIVE OrChain(_)
OrChain(operands) ==
    IF Len(operands) = 1 \/ Head(operands) # ""
    THEN Head(operands)
    ELSE OrChain(Tail(operands))

\* Lines 759-785: whether the loop copies the checkpoint's tensor of
\* current_key into the model.
Copied(current_key, topo, old_keys) ==
    LET blocks_before == Last(topo) - 1      \* line 778: block_iter
    IN  /\ current_key \in old_keys
        /\ \/ Occurs("rand_graph", current_key)
           \/ Occurs(OrChain(<<"g_conv", "bln_residual", "tcn.t_conv.bias", "residual",
                               "bn.weight", "bn.bias", "bn.running_mean",
                               "bn.running_var">>), current_key)
           \/ Occurs("tcn.t_conv.weight", current_key)
           \/ (Occurs("fc.weight", current_key) /\ blocks_before > 0)

\* The loop of lines 758-785 over the model's parameters, from the i-th on:
\* sd maps each key to "model" (the value the model had) or "checkpoint"
\* (the value read from the file, for tensors of the same shape).
RECURSIVE CopyKeys(_, _, _, _)
CopyKeys(i, topo, old_keys, sd) ==
    IF i > Len(ParamKeys)
    THEN sd
    ELSE CopyKeys(i + 1, topo, old_keys,
                  IF Copied(ParamKeys[i], topo, old_keys)
                  THEN [sd EXCEPT ![ParamKeys[i]] = "checkpoint"]
                  ELSE sd)

\* Mutation: the FileNotFoundError of torch.load re-raised as it came.
LoadFromPtPlain(topo, m, ort, d, name) ==
    IF name \notin DOMAIN d.pt
    THEN [err |-> "FileNotFoundError", msg |-> "no such file", model |-> m,
          ort_session |-> ort]
    ELSE LoadWeights(topo, m, ort)

\* __load_from_pt, lines 735-742: a missing file is reported with the
\* annotated message.
LoadFromPt(topo, m, ort, d, name) ==
    IF name \notin DOMAIN d.pt
    THEN [err |-> "FileNotFoundError", msg |-> "pretrained .pt file must be placed in path",
          model |-> m, ort_session |-> ort]
    ELSE LoadWeights(topo, m, ort)

LoadFromOnnx(m, ort, d, name) ==
    IF name \notin DOMAIN d.onnx
    THEN [err |-> "NoSuchFile", msg |-> "onnxruntime", model |-> m, ort_session |-> ort]
    ELSE [err |-> "none", msg |-> "", model |-> m,
          ort_session |-> [path |-> FilePath(name, "onnx"), input |-> d.onnx[name].input]]

LoadResult(topo, m, ort, d, name) ==
    IF name \notin DOMAIN d.json
    THEN [err |-> "FileNotFoundError", msg |-> "no such file", model |-> m,
          ort_session |-> ort]
    ELSE IF ~d.json[name].optimized
    THEN LoadFromPt(topo, m, ort, d, name)
    ELSE LoadFromOnnx(m, ort, d, name)


\* ------------------------------------------------------------------- fit
CheckpointName(topo) == <<"checkpoints", Len(topo), Last(topo)>>

\* Lines 171-185: the optimizer.  The else branch builds its message from
\* self.optimizer_, an attribute only a successful earlier branch sets.
SetOptimizer(name, m, opt) ==
    IF name = "sgd"
    THEN IF m = None THEN [err |-> "AttributeError", msg |-> "model.parameters", optimizer_ |-> opt]
         ELSE [err |-> "none", msg |-> "", optimizer_ |-> "SGD"]
    ELSE IF name = "adam"
    THEN IF m = None THEN [err |-> "AttributeError", msg |-> "model.parameters", optimizer_ |-> opt]
         ELSE [err |-> "none", msg |-> "", optimizer_ |-> "Adam"]
    ELSE IF opt = "unset"
    THEN [err |-> "AttributeError", msg |-> "optimizer_", optimizer_ |-> opt]
    ELSE [err |-> "TypeError", msg |-> "optimizer + str", optimizer_ |-> opt]

\* Whether the epoch's checkpoint is saved, line 222.
SaveModel(epoch, epochs) == (epoch + 1 = epochs)

\* eval, lines 347 and 361-362: model.eval(), then the dropout modules are
\* put back in training mode when Monte Carlo dropout is asked for.
EvalMode(m, monte_carlo_dropout) ==
    [m EXCEPT !.training = FALSE, !.dropout = monte_carlo_dropout]

\* What eval returns, line 413 (its loss and score left out).
EvalResults(epoch, accuracy) == [epoch |-> epoch, accuracy |-> accuracy]

\* Mutation: best_acc follows the latest accuracy.
BestLatest(best, accuracy) == accuracy

\* eval, lines 395-396.
BestAcc(best, accuracy) == IF accuracy > best THEN accuracy ELSE best

\* eval called by itself, lines 292-413, on data of the given accuracy: a
\* learner without a model has nothing to call eval() on.
EvalResult(m, best, epoch, mcd, accuracy) ==
    IF m = None
    THEN [err |-> "AttributeError", msg |-> "model.eval", model |-> m, best_acc |-> best,
          eval_results |-> <<>>]
    ELSE [err |-> "none", msg |-> "", model |-> EvalMode(m, mcd),
          best_acc |-> BestAcc(best, accuracy),
          eval_results |-> <<EvalResults(epoch, accuracy)>>]

\* Mutation: fit saves without clearing the ONNX session.
SessionKept(ort) == ort

\* Line 279: fit clears the ONNX session before it saves.
SessionBeforeSave(ort) == None

\* The eval call that ends an epoch, lines 281-285, on the state st of the
\* epoch loop.
EvalEpoch(epoch, mcd, accuracy, st) ==
    [st EXCEPT !.model = EvalMode(@, mcd),
               !.eval_results = Append(@, EvalResults(epoch, accuracy)),
               !.best_acc = BestAcc(@, accuracy)]

\* One pass of the epoch loop, lines 219-286, on st = [err, msg, model,
\* ort_session, disk, written, trained, saved_at, eval_results, best_acc];
\* accs[i] is the accuracy the i-th evaluation of this fit measures.
FitEpoch(epoch, epochs, topo, mcd, accs, st) ==
    LET trained == [st EXCEPT !.model = [@ EXCEPT !.training = TRUE, !.dropout = TRUE],
                              !.trained = @ + 1]
        accuracy == accs[trained.trained]
    IN  IF ~SaveModel(epoch, epochs)
        THEN EvalEpoch(epoch, mcd, accuracy, trained)
        ELSE IF Len(topo) = 0
        THEN [trained EXCEPT !.err = "IndexError", !.msg = "topology[-1]"]
        ELSE LET o == SessionBeforeSave(trained.ort_session)
                 r == SaveResult(trained.model, o, trained.disk, CheckpointName(topo))
                 saved == [trained EXCEPT !.ort_session = o,
                                          !.err = r.err, !.msg = r.msg,
                                          !.disk = r.disk,
                                          !.written = @ \o r.written,
                                          !.saved_at = Append(@, trained.trained)]
             IN  IF r.err = "none" THEN EvalEpoch(epoch, mcd, accuracy, saved) ELSE saved

RECURSIVE FitEpochs(_, _, _, _, _, _)
FitEpochs(epoch, epochs, topo, mcd, accs, st) ==
    IF epoch >= epochs \/ st.err # "none"
    THEN st
    ELSE FitEpochs(epoch + 1, epochs, topo, mcd, accs,
                   FitEpoch(epoch, epochs, topo, mcd, accs, st))

\* fit: the optimizer, the epoch loop, the returned train_loss (the mean
\* training loss of the last epoch, here the input loss).  With no epoch to
\* run, the return statement reads loss_value before any assignment.
\* best is self.best_acc at the call, set to 0 on line 216 once the
\* optimizer is made.
FitResult(c, topo, m, ort, d, opt, best, loss, mcd, accs) ==
    LET o == SetOptimizer(c.optimizer_name, m, opt)
        st0 == [err |-> "none", msg |-> "", model |-> m, ort_session |-> ort, disk |-> d,
                written |-> <<>>, trained |-> 0, saved_at |-> <<>>,
                eval_results |-> <<>>, best_acc |-> 0]
    IN  IF o.err # "none"
        THEN [st0 EXCEPT !.err = o.err, !.msg = o.msg, !.best_acc = best] @@
             [optimizer_ |-> o.optimizer_, train_loss |-> 0]
        ELSE LET st == FitEpochs(c.start_epoch, c.epochs, topo, mcd, accs, st0)
             IN  IF st.err = "none" /\ st.trained = 0
                 THEN [st EXCEPT !.err = "UnboundLocalError", !.msg = "loss_value"] @@
                      [optimizer_ |-> o.optimizer_, train_loss |-> 0]
                 ELSE st @@ [optimizer_ |-> o.optimizer_, train_loss |-> loss]

\* -------------------------------------------------------------- optimize
TempOnnx == <<<<"temp", 0, 0>>, "onnx">>

\* __convert_to_onnx, lines 628-636: the input shape is chosen by comparing
\* the dataset name as the caller wrote it.
ConvertErr(dataset_name) ==
    IF dataset_name \in {"CASIA", "CK+", "AFEW"} THEN "none" ELSE "ValueError"

\* torch.onnx.export, lines 644-653: the graph's input is named 'onnx_input'.
OnnxGraph(m) == [topology |-> m.topology, input |-> "onnx_input"]

\* Mutation: optimize exports again over a session it already holds.
OptimizeAgain(c, m, ort, d) ==
    IF m = None
    THEN [err |-> "UserWarning", msg |-> "no model is loaded", ort_session |-> ort, disk |-> d,
          written |-> <<>>]
    ELSE IF ConvertErr(c.dataset_name) # "none"
    THEN [err |-> ConvertErr(c.dataset_name), msg |-> "not a valid dataset name",
          ort_session |-> ort, disk |-> d, written |-> <<>>]
    ELSE [err |-> "none", msg |-> "",
          ort_session |-> [path |-> TempOnnx, input |-> OnnxGraph(m).input],
          disk |-> [d EXCEPT !.temp = OnnxGraph(m)], written |-> <<TempOnnx>>]

\* optimize, lines 597-617.
OptimizeResult(c, m, ort, d) ==
    IF m = None
    THEN [err |-> "UserWarning", msg |-> "no model is loaded", ort_session |-> ort, disk |-> d,
          written |-> <<>>]
    ELSE IF ort # None
    THEN [err |-> "UserWarning", msg |-> "already optimized", ort_session |-> ort, disk |-> d,
          written |-> <<>>]
    ELSE IF ConvertErr(c.dataset_name) # "none"
    THEN [err |-> ConvertErr(c.dataset_name), msg |-> "not a valid dataset name",
          ort_session |-> ort, disk |-> d, written |-> <<>>]
    ELSE [err |-> "none", msg |-> "",
          ort_session |-> [path |-> TempOnnx, input |-> OnnxGraph(m).input],
          disk |-> [d EXCEPT !.temp = OnnxGraph(m)], written |-> <<TempOnnx>>]

\* ----------------------------------------------------------------- infer
\* Lines 588-593: the prediction is described with classes_dict, which
\* __init__ sets only for a supported dataset name.
Describe(classes) ==
    [err |-> IF classes = "unset" THEN "AttributeError" ELSE "none",
     msg |-> IF classes = "unset" THEN "classes_dict" ELSE ""]

\* Lines 560-561 and 588-589: the session is fed an input named 'data',
\* which onnxruntime refuses for a graph whose input has another name; what
\* run returns is a list, which has no attribute data.
InferOnnx(m, ort, mts) ==
    [err |-> IF ort.input # "data" THEN "InvalidArgument" ELSE "AttributeError",
     msg |-> IF ort.input # "data" THEN "onnxruntime" ELSE "list.data",
     model |-> m, model_train_state |-> mts, ran |-> "onnx"]

\* Lines 565-586.
InferPytorch(m, mts, classes, mcd) ==
    LET evald == IF mts THEN [m EXCEPT !.training = FALSE, !.dropout = FALSE] ELSE m
        run == IF mcd THEN [evald EXCEPT !.dropout = TRUE] ELSE evald
    IN  Describe(classes) @@ [model |-> run, model_train_state |-> FALSE, ran |-> "pytorch"]

\* Mutation: model_train_state cleared before the model is looked at.
InferFlagFirst(m, ort, mts, classes, mcd) ==
    IF ort # None
    THEN InferOnnx(m, ort, mts)
    ELSE IF m = None
    THEN [err |-> "UserWarning", msg |-> "no model is loaded", model |-> m,
          model_train_state |-> FALSE, ran |-> "nothing"]
    ELSE InferPytorch(m, mts, classes, mcd)

InferResult(m, ort, mts, classes, mcd) ==
    IF ort # None
    THEN InferOnnx(m, ort, mts)
    ELSE IF m = None
    THEN [err |-> "UserWarning", msg |-> "no model is loaded", model |-> m,
          model_train_state |-> mts, ran |-> "nothing"]
    ELSE InferPytorch(m, mts, classes, mcd)

\* -------------------------------------------------------------- download
\* Line 68: parent_dir is temp_path, left at its default.
ParentDir == "temp"

ValidModes == {"train_data", "val_data", "test_data"}
Modes == ValidModes \cup {"train", "all_data"}

\* The path argument: None (the default) or a directory.
DownloadPaths == {NoneName, "data"}

\* Lines 823-882: the files of a mode, in the order they are fetched.
ModeFiles(mode) ==
    CASE mode = "train_data" -> <<"train.npy", "train_labels.pkl">>
      [] mode = "val_data" -> <<"val.npy", "val_labels.pkl">>
      [] mode = "test_data" -> <<"val.npy">>

\* Mutation: the files put in path itself.
DownloadDirFlat(path, dataset_name) == <<path>>

\* os.path.join(path, self.dataset_name).
DownloadDir(path, dataset_name) == <<path, dataset_name>>

NoDatasets == [dirs |-> {}, files |-> {}]

\* Mutation: the directories made before the mode is looked at.
DownloadLateCheck(c, data, path, mode) ==
    LET p == IF path = NoneName THEN ParentDir ELSE path
        dir == DownloadDir(p, c.dataset_name)
        made == [data EXCEPT !.dirs = @ \cup {<<p>>, dir}]
        missing == SelectSeq(ModeFiles(mode), LAMBDA f : <<dir, f>> \notin data.files)
    IN  IF mode \notin ValidModes
        THEN [err |-> "UserWarning", msg |-> "mode parameter not valid", datasets |-> made,
              written |-> <<>>]
        ELSE [err |-> "none", msg |-> "",
              datasets |-> [made EXCEPT !.files = @ \cup {<<dir, missing[i]>> : i \in DOMAIN missing}],
              written |-> [i \in DOMAIN missing |-> <<dir, missing[i]>>]]

\* download, lines 811-884, with a server that answers: a file is fetched
\* when it is not there yet.
DownloadResult(c, data, path, mode) ==
    IF mode \notin ValidModes
    THEN [err |-> "UserWarning", msg |-> "mode parameter not valid", datasets |-> data,
          written |-> <<>>]
    ELSE LET p == IF path = NoneName THEN ParentDir ELSE path
             dir == DownloadDir(p, c.dataset_name)
             missing == SelectSeq(ModeFiles(mode), LAMBDA f : <<dir, f>> \notin data.files)
         IN  [err |-> "none", msg |-> "",
              datasets |-> [dirs |-> data.dirs \cup {<<p>>, dir},
                            files |-> data.files \cup {<<dir, missing[i]>> : i \in DOMAIN missing}],
              written |-> [i \in DOMAIN missing |-> <<dir, missing[i]>>]]

\* ------------------------------------------------------------------ Init
\* topology_npy holds the arrays saved as Topology.npy: none, or the one
\* of the latest network_builder.
NoFiles == [json |-> <<>>, pt |-> <<>>, onnx |-> <<>>, temp |-> None, topology_npy |-> <<>>]

\* The files found at start: nothing, or a pretrained model somebody put
\* there: complete, or with its weights file missing.
InitialDisks ==
    { NoFiles,
      [NoFiles EXCEPT !.json = PretrainedName :> Metadata(FilePath(PretrainedName, "pt"), "pt", FALSE)],
      [NoFiles EXCEPT !.json = PretrainedName :> Metadata(FilePath(PretrainedName, "pt"), "pt", FALSE),
                      !.pt = PretrainedName :> [topology |-> <<1>>]],
      [NoFiles EXCEPT !.json = PretrainedName :> Metadata(FilePath(PretrainedName, "onnx"), "onnx", TRUE),
                      !.onnx = PretrainedName :> [topology |-> <<1>>, input |-> "data"]] }

StartTopologies == {<<>>, <<1>>}
StartEpochs == {0, 1}

\* The constructor's arguments of the learner's life outside
\* network_builder: the optimizer, the dataset name and the epochs vary.
Configs ==
    [optimizer_name : OptimizerNames, dataset_name : DatasetNames,
     epochs : 1..MaxEpochs, start_epoch : StartEpochs,
     num_layers : {MaxLayers}, num_blocks : {MaxBlocks},
     layer_threshold : {0}, block_threshold : {0}]

\* The constructor's arguments of a topology search: the sizes and the
\* thresholds vary.
BuilderConfigs ==
    [optimizer_name : {"sgd"}, dataset_name : {"CASIA"},
     epochs : {1}, start_epoch : {0},
     num_layers : 1..MaxLayers, num_blocks : 1..MaxBlocks,
     layer_threshold : Thresholds, block_threshold : Thresholds]

\* The state __init__ leaves, lines 55-111.  dflt: the topology argument was
\* left out, and self.topology is the list object of the default (line 60),
\* the same object at every call.
ConstructedAs(c, topo, d, dflt) ==
    /\ cfg = c
    /\ alive = (ConstructErr(c.dataset_name) = "none")
    /\ topology = topo
    /\ model = None
    /\ ort_session = None
    /\ model_train_state = TRUE
    /\ optimizer_ = "unset"
    /\ classes_dict = (IF ConstructErr(c.dataset_name) = "none"
                       THEN ClassesDict(c.dataset_name) ELSE "unset")
    /\ best_acc = 0
    /\ disk = d
    /\ pc = "idle"
    /\ layer_iter = 0 /\ block_iter = 0
    /\ loss_layer_old = InitLoss /\ loss_block_old = InitLoss
    /\ loss_layer_new = InitLoss /\ loss_block_new = InitLoss
    /\ stopped = {} /\ nfit = 0
    /\ start_topology = topo
    /\ run_saved = {} /\ kept = topo /\ kept_loss = <<>>
    /\ last = Outcome("__init__", ConstructErr(c.dataset_name), "", NoName, <<>>, 0)
    /\ state_dict = <<>> /\ weights = {}
    /\ datasets = NoDatasets
    /\ by_default = dflt
    /\ peers = <<>>

\* A learner given its own topology list.
Constructed(c, topo, d) == ConstructedAs(c, topo, d, FALSE)

Init == \E c \in Configs, topo \in StartTopologies, d \in InitialDisks : Constructed(c, topo, d)

InitBuilder == \E c \in BuilderConfigs, topo \in StartTopologies : Constructed(c, topo, NoFiles)

\* --------------------------------------------------------- the API calls
Idle == alive /\ pc = "idle"

InitModel ==
    /\ Idle
    /\ LET r == InitModelResult(topology, model)
       IN  /\ model' = r.model
           /\ last' = Outcome("init_model", r.err, r.msg, NoName, <<>>, 0)
    /\ UNCHANGED <<cfg, alive, topology, ort_session, model_train_state, optimizer_,
                   classes_dict, disk, pc, locals>>
    /\ UNCHANGED aside
    /\ UNCHANGED best_acc

\* The accuracies of the evaluations of one fit, one per epoch it runs.
AccuracyRuns(c, A) ==
    [1..(IF c.epochs > c.start_epoch THEN c.epochs - c.start_epoch ELSE 0) -> A]

\* fit, its evaluations measuring accuracies of the set A.
FitWith(A) ==
    /\ Idle
    /\ \E loss \in Losses, mcd \in BOOLEAN, accs \in AccuracyRuns(cfg, A) :
         LET r == FitResult(cfg, topology, model, ort_session, disk, optimizer_, best_acc,
                            loss, mcd, accs)
         IN  /\ model' = r.model
             /\ ort_session' = r.ort_session
             /\ disk' = r.disk
             /\ optimizer_' = r.optimizer_
             /\ best_acc' = r.best_acc
             /\ last' = [Outcome("fit", r.err, r.msg, NoName, r.written, r.trained)
                           EXCEPT !.saved_at = r.saved_at,
                                  !.eval_results = r.eval_results,
                                  !.best_accuracy = IF r.err = "none" THEN r.best_acc ELSE 0]
    /\ UNCHANGED <<cfg, alive, topology, model_train_state, classes_dict, pc, locals>>
    /\ UNCHANGED aside

\* fit on validation data no sample of which is classified right.
Fit == FitWith({0})

\* fit on validation data of any accuracy.
FitStats == FitWith(Accuracies)

Infer ==
    /\ Idle
    /\ \E mcd \in BOOLEAN :
         LET r == InferResult(model, ort_session, model_train_state, classes_dict, mcd)
         IN  /\ model' = r.model
             /\ model_train_state' = r.model_train_state
             /\ last' = [Outcome("infer", r.err, r.msg, NoName, <<>>, 0)
                           EXCEPT !.arg = IF mcd THEN "monte_carlo_dropout" ELSE ""]
    /\ UNCHANGED <<cfg, alive, topology, ort_session, optimizer_, classes_dict, disk, pc,
                   locals>>
    /\ UNCHANGED aside
    /\ UNCHANGED best_acc

Optimize ==
    /\ Idle
    /\ LET r == OptimizeResult(cfg, model, ort_session, disk)
       IN  /\ ort_session' = r.ort_session
           /\ disk' = r.disk
           /\ last' = Outcome("optimize", r.err, r.msg, NoName, r.written, 0)
    /\ UNCHANGED <<cfg, alive, topology, model, model_train_state, optimizer_, classes_dict,
                   pc, locals>>
    /\ UNCHANGED aside
    /\ UNCHANGED best_acc

Save ==
    /\ Idle
    /\ LET r == SaveResult(model, ort_session, disk, UserName)
       IN  /\ disk' = r.disk
           /\ last' = Outcome("save", r.err, r.msg, UserName, r.written, 0)
    /\ UNCHANGED <<cfg, alive, learner, pc, locals>>
    /\ UNCHANGED aside

Load ==
    /\ Idle
    /\ \E name \in UserNames \cup DOMAIN disk.json :
         LET r == LoadResult(topology, model, ort_session, disk, name)
         IN  /\ model' = r.model
             /\ ort_session' = r.ort_session
             /\ last' = [Outcome("load", r.err, r.msg, name, <<>>, 0)
                           EXCEPT !.round_trip = (last.op = "discard" /\ last.name = name)]
    /\ UNCHANGED <<cfg, alive, topology, model_train_state, optimizer_, classes_dict, disk,
                   pc, locals>>
    /\ UNCHANGED aside
    /\ UNCHANGED best_acc


\* ------------------------------------------------------- network_builder
\* Mutation: the comparison with the threshold made strict.
ImprovementBelow(loss_old, loss_new, th) ==
    IF loss_old = 0
    THEN loss_new > 0
    ELSE (loss_old - loss_new) * ThDen < th * loss_old

\* -1 * (loss_new - loss_old) / loss_old <= threshold, lines 520-521 and
\* 530-531, with threshold = th / ThDen.  The losses are numpy floats: a
\* division by zero yields -inf (compared: below every threshold) or, for
\* 0 / 0, nan (every comparison with nan is false).
ImprovementAtMost(loss_old, loss_new, th) ==
    IF loss_old = 0
    THEN loss_new > 0
    ELSE (loss_old - loss_new) * ThDen <= th * loss_old

\* Mutation: the two losses taken in the other order.
RejectBlockSwapped(biter, loss_old, loss_new, th) ==
    biter > 0 /\ ImprovementAtMost(loss_new, loss_old, th)

\* Line 521: the block just trained is dropped.
RejectBlock(biter, loss_old, loss_new, th) ==
    biter > 0 /\ ImprovementAtMost(loss_old, loss_new, th)

\* Mutation: the two losses taken in the other order.
RejectLayerSwapped(liter, loss_old, loss_new, th) ==
    liter > 0 /\ ImprovementAtMost(loss_new, loss_old, th)

\* Line 531: the layer just grown is dropped.
RejectLayer(liter, loss_old, loss_new, th) ==
    liter > 0 /\ ImprovementAtMost(loss_old, loss_new, th)

\* Mutation: the block loop runs once more.
MoreBlocksOffByOne(biter, num_blocks) == biter < num_blocks

\* Line 489, for block_iter in range(self.num_blocks): whether another pass
\* follows the one of biter.
MoreBlocks(biter, num_blocks) == biter + 1 < num_blocks

\* Line 486, for layer_iter in range(self.num_layers).
MoreLayers(liter, num_layers) == liter + 1 < num_layers

\* Mutation: the loss of the block just trained becomes the baseline even
\* when the block is dropped.
BaselineAlways(rejected, loss_kept, loss_new) == loss_new

\* Lines 521-528: the break of a rejection skips the two assignments that
\* make the new block's loss the baseline.
Baseline(rejected, loss_kept, loss_new) == IF rejected THEN loss_kept ELSE loss_new

\* Lines 500-506: the checkpoint a new block starts from, if any.
NeedsLoad(liter, biter) == liter > 0 \/ biter > 0

LoadName(topo, biter) ==
    IF biter = 0
    THEN <<"checkpoints", Len(topo) - 1, topo[Len(topo) - 1]>>
    ELSE <<"checkpoints", Len(topo), Last(topo) - 1>>

\* An exception inside network_builder ends it.
Abort(op, r, name) ==
    /\ pc' = "idle"
    /\ last' = Outcome(op, r.err, r.msg, name, <<>>, 0)

NB_Start ==
    /\ Idle
    /\ Len(topology) <= MaxStartLen
    /\ pc' = "add_layer"
    /\ layer_iter' = 0 /\ block_iter' = 0
    /\ loss_layer_old' = InitLoss /\ loss_block_old' = InitLoss
    /\ loss_layer_new' = InitLoss /\ loss_block_new' = InitLoss
    /\ stopped' = {} /\ nfit' = 0
    /\ start_topology' = topology
    /\ run_saved' = {} /\ kept' = topology /\ kept_loss' = <<>>
    /\ last' = Outcome("network_builder", "none", "", NoName, <<>>, 0)
    /\ UNCHANGED <<cfg, alive, learner, disk>>
    /\ UNCHANGED aside

\* Line 488.
NB_AddLayer ==
    /\ pc = "add_layer"
    /\ topology' = Append(topology, 0)
    /\ block_iter' = 0
    /\ pc' = "add_block"
    /\ kept_loss' = Append(kept_loss, InitLoss)
    /\ UNCHANGED <<cfg, alive, model, ort_session, model_train_state, optimizer_,
                   classes_dict, disk, layer_iter, loss_layer_old, loss_block_old,
                   loss_layer_new, loss_block_new, stopped, nfit, run_saved, kept, last>>
    /\ UNCHANGED aside
    /\ UNCHANGED best_acc
    /\ UNCHANGED start_topology

\* Lines 495-497: one more block in layer layer_iter, and a fresh model.
NB_AddBlock ==
    /\ pc = "add_block"
    /\ LET topo == [topology EXCEPT ![layer_iter + 1] = @ + 1]
           r == InitModelResult(topo, model)
       IN  /\ topology' = topo
           /\ model' = r.model
           /\ last' = Outcome("init_model", r.err, r.msg, NoName, <<>>, 0)
           /\ pc' = IF r.err # "none" THEN "idle"
                    ELSE IF NeedsLoad(layer_iter, block_iter) THEN "load" ELSE "fit"
    /\ UNCHANGED <<cfg, alive, ort_session, model_train_state, optimizer_, classes_dict,
                   disk, locals>>
    /\ UNCHANGED aside
    /\ UNCHANGED best_acc

\* Lines 508-510.
NB_Load ==
    /\ pc = "load"
    /\ LET name == LoadName(topology, block_iter)
           r == LoadResult(topology, model, None, disk, name)
       IN  /\ model' = r.model
           /\ ort_session' = r.ort_session
           /\ IF r.err = "none"
              THEN /\ pc' = "fit"
                   /\ last' = Outcome("load", r.err, r.msg, name, <<>>, 0)
              ELSE Abort("load", r, name)
    /\ UNCHANGED <<cfg, alive, topology, model_train_state, optimizer_, classes_dict, disk,
                   locals>>
    /\ UNCHANGED aside
    /\ UNCHANGED best_acc

\* Lines 512-518.
NB_Fit ==
    /\ pc = "fit"
    /\ \E loss \in Losses, mcd \in BOOLEAN :
         LET r == FitResult(cfg, topology, model, ort_session, disk, optimizer_, best_acc,
                            loss, mcd, [i \in 1..MaxEpochs |-> 0])
         IN  /\ model' = r.model
             /\ ort_session' = r.ort_session
             /\ disk' = r.disk
             /\ optimizer_' = r.optimizer_
             /\ best_acc' = r.best_acc
             /\ last' = [Outcome("fit", r.err, r.msg, NoName, r.written, r.trained)
                           EXCEPT !.saved_at = r.saved_at,
                                  !.eval_results = r.eval_results,
                                  !.best_accuracy = IF r.err = "none" THEN r.best_acc ELSE 0]
             /\ pc' = IF r.err = "none" THEN "block_check" ELSE "idle"
             /\ loss_block_new' = IF r.err = "none" THEN r.train_loss ELSE loss_block_new
             /\ nfit' = nfit + 1
             /\ run_saved' = run_saved \cup {r.written[i][1] : i \in DOMAIN r.written}
    /\ UNCHANGED <<cfg, alive, topology, model_train_state, classes_dict, layer_iter,
                   block_iter, loss_layer_old, loss_block_old, loss_layer_new, stopped,
                   kept, kept_loss>>
    /\ UNCHANGED aside
    /\ UNCHANGED start_topology

\* Lines 519-528, and the step of the block loop.
NB_BlockCheck ==
    /\ pc = "block_check"
    /\ LET rejected == RejectBlock(block_iter, loss_block_old, loss_block_new,
                                   cfg.block_threshold)
       IN  /\ loss_block_old' = Baseline(rejected, loss_block_old, loss_block_new)
           /\ loss_layer_new' = Baseline(rejected, loss_layer_new, loss_block_new)
           /\ IF rejected
              THEN /\ topology' = [topology EXCEPT ![layer_iter + 1] = @ - 1]
                   /\ stopped' = stopped \cup {layer_iter}
                   /\ pc' = "layer_check"
                   /\ UNCHANGED <<block_iter, kept_loss>>
              ELSE /\ block_iter' = block_iter + 1
                   /\ pc' = IF MoreBlocks(block_iter, cfg.num_blocks)
                            THEN "add_block" ELSE "layer_check"
                   /\ kept_loss' = [kept_loss EXCEPT ![layer_iter + 1] = loss_block_new]
                   /\ UNCHANGED <<topology, stopped>>
    /\ kept' = topology'
    /\ UNCHANGED <<cfg, alive, model, ort_session, model_train_state, optimizer_,
                   classes_dict, disk, layer_iter, loss_layer_old, loss_block_new, nfit,
                   run_saved, last>>
    /\ UNCHANGED aside
    /\ UNCHANGED best_acc
    /\ UNCHANGED start_topology

\* Lines 529-537, and the step of the layer loop.
NB_LayerCheck ==
    /\ pc = "layer_check"
    /\ IF RejectLayer(layer_iter, loss_layer_old, loss_layer_new, cfg.layer_threshold)
       THEN /\ topology' = Front(topology)
            /\ pc' = "save_topology"
            /\ UNCHANGED <<layer_iter, loss_layer_old>>
       ELSE /\ loss_layer_old' = loss_layer_new
            /\ layer_iter' = layer_iter + 1
            /\ pc' = IF MoreLayers(layer_iter, cfg.num_layers)
                     THEN "add_layer" ELSE "save_topology"
            /\ UNCHANGED topology
    /\ kept' = topology'
    /\ UNCHANGED <<cfg, alive, model, ort_session, model_train_state, optimizer_,
                   classes_dict, disk, block_iter, loss_block_old, loss_layer_new,
                   loss_block_new, stopped, nfit, run_saved, kept_loss, last>>
    /\ UNCHANGED aside
    /\ UNCHANGED best_acc
    /\ UNCHANGED start_topology

\* Lines 538-539.
NB_Return ==
    /\ pc = "save_topology"
    /\ disk' = [disk EXCEPT !.topology_npy = <<topology>>]
    /\ last' = Outcome("network_builder", "none", "", NoName, <<<<NoName, "Topology.npy">>>>, 0)
    /\ pc' = "idle"
    /\ UNCHANGED <<cfg, alive, learner, locals>>
    /\ UNCHANGED aside

\* The caller drops the model, as the save-and-load test does between save
\* and load; the outcome keeps the name of a save that has just succeeded
\* on a learner holding a model.
DiscardModel ==
    /\ Idle
    /\ model' = None
    /\ last' = Outcome("discard", "none", "",
                       IF last.op = "save" /\ last.err = "none" /\ model # None
                       THEN last.name ELSE NoName,
                       <<>>, 0)
    /\ UNCHANGED <<cfg, alive, topology, ort_session, model_train_state, optimizer_,
                   classes_dict, disk, pc, locals>>
    /\ UNCHANGED aside
    /\ UNCHANGED best_acc

\* The learner's calls, one at a time.
Next == InitModel \/ Fit \/ Infer \/ Optimize \/ Save \/ Load

Spec == Init /\ [][Next]_vars

\* eval as the caller's own call (epoch left at its default).
Eval ==
    /\ Idle
    /\ \E mcd \in BOOLEAN, accuracy \in Accuracies :
         LET r == EvalResult(model, best_acc, 0, mcd, accuracy)
         IN  /\ model' = r.model
             /\ best_acc' = r.best_acc
             /\ last' = [Outcome("eval", r.err, r.msg, NoName, <<>>, 0)
                           EXCEPT !.arg = IF mcd THEN "monte_carlo_dropout" ELSE "",
                                  !.eval_results = r.eval_results]
    /\ UNCHANGED <<cfg, alive, topology, ort_session, model_train_state, optimizer_,
                   classes_dict, disk, pc, locals>>
    /\ UNCHANGED aside

\* The learner's calls when the caller may also drop the model.
RoundTripConfigs ==
    [optimizer_name : {"sgd"}, dataset_name : {"CASIA", "casia", "CK+"},
     epochs : {1}, start_epoch : {0},
     num_layers : {MaxLayers}, num_blocks : {MaxBlocks},
     layer_threshold : {0}, block_threshold : {0}]

InitRoundTrip ==
    \E c \in RoundTripConfigs, topo \in StartTopologies, d \in InitialDisks :
       Constructed(c, topo, d)

NextRoundTrip == InitModel \/ Fit \/ Infer \/ Optimize \/ Save \/ Load \/ DiscardModel

SpecRoundTrip == InitRoundTrip /\ [][NextRoundTrip]_vars

\* The calls that set or read the model's mode.
InitModes ==
    \E c \in RoundTripConfigs, topo \in StartTopologies, d \in InitialDisks :
       Constructed(c, topo, d)

NextModes == InitModel \/ Fit \/ Infer \/ Eval \/ Load

SpecModes == InitModes /\ [][NextModes]_vars

\* __load_from_pt seen parameter by parameter: a learner whose model is
\* built, about to copy a checkpoint that holds some of the model's keys.
LastBlockCounts == 1..MaxBlocks

InitLoadKeys ==
    \E b \in LastBlockCounts, old_keys \in SUBSET Parameters :
       /\ cfg = CHOOSE c \in RoundTripConfigs : c.dataset_name = "CASIA"
       /\ alive = TRUE
       /\ topology = <<b>>
       /\ model = NewModel(<<b>>)
       /\ ort_session = None
       /\ model_train_state = TRUE
       /\ optimizer_ = "unset"
       /\ classes_dict = ClassesDict("CASIA")
       /\ best_acc = 0
       /\ disk = [NoFiles EXCEPT
                    !.json = PretrainedName :> Metadata(FilePath(PretrainedName, "pt"), "pt", FALSE),
                    !.pt = PretrainedName :> [topology |-> <<b>>]]
       /\ pc = "load_keys"
       /\ layer_iter = 0 /\ block_iter = 0
       /\ loss_layer_old = InitLoss /\ loss_block_old = InitLoss
       /\ loss_layer_new = InitLoss /\ loss_block_new = InitLoss
       /\ stopped = {} /\ nfit = 0
       /\ start_topology = <<b>>
       /\ run_saved = {} /\ kept = <<b>> /\ kept_loss = <<>>
       /\ last = Outcome("init_model", "none", "", NoName, <<>>, 0)
       /\ state_dict = [key \in Parameters |-> "model"]
       /\ weights = old_keys
       /\ datasets = NoDatasets
       /\ by_default = FALSE /\ peers = <<>>

\* load of the checkpoint: the model's tensors after the loop.
LoadKeys ==
    /\ pc = "load_keys"
    /\ LET r == LoadResult(topology, model, ort_session, disk, PretrainedName)
       IN  /\ model' = r.model
           /\ ort_session' = r.ort_session
           /\ last' = Outcome("load", r.err, r.msg, PretrainedName, <<>>, 0)
    /\ state_dict' = CopyKeys(1, topology, weights, state_dict)
    /\ pc' = "idle"
    /\ UNCHANGED <<cfg, alive, topology, model_train_state, optimizer_, classes_dict, disk,
                   locals, weights, datasets, by_default, peers>>
    /\ UNCHANGED best_acc

SpecLoadKeys == InitLoadKeys /\ [][LoadKeys]_vars

\* download on a learner whose default directory may hold files of an
\* earlier download.
DatasetFiles == {"train.npy", "train_labels.pkl", "val.npy", "val_labels.pkl"}

DownloadConfigs ==
    [optimizer_name : {"sgd"}, dataset_name : {"CASIA", "casia", "CELEB"},
     epochs : {1}, start_epoch : {0},
     num_layers : {MaxLayers}, num_blocks : {MaxBlocks},
     layer_threshold : {0}, block_threshold : {0}]

InitDownload ==
    \E c \in DownloadConfigs, found \in SUBSET DatasetFiles :
       /\ cfg = c
       /\ alive = TRUE
       /\ topology = <<>>
       /\ model = None
       /\ ort_session = None
       /\ model_train_state = TRUE
       /\ optimizer_ = "unset"
       /\ classes_dict = ClassesDict(c.dataset_name)
       /\ best_acc = 0
       /\ disk = NoFiles
       /\ pc = "idle"
       /\ layer_iter = 0 /\ block_iter = 0
       /\ loss_layer_old = InitLoss /\ loss_block_old = InitLoss
       /\ loss_layer_new = InitLoss /\ loss_block_new = InitLoss
       /\ stopped = {} /\ nfit = 0
       /\ start_topology = <<>>
       /\ run_saved = {} /\ kept = <<>> /\ kept_loss = <<>>
       /\ last = Outcome("__init__", "none", "", NoName, <<>>, 0)
       /\ state_dict = <<>> /\ weights = {}
       /\ datasets = IF found = {} THEN NoDatasets
                     ELSE [dirs |-> {<<ParentDir>>, DownloadDir(ParentDir, c.dataset_name)},
                           files |-> {<<DownloadDir(ParentDir, c.dataset_name), f>> : f \in found}]
       /\ by_default = FALSE /\ peers = <<>>

Download ==
    /\ Idle
    /\ \E path \in DownloadPaths, mode \in Modes :
         LET r == DownloadResult(cfg, datasets, path, mode)
         IN  /\ datasets' = r.datasets
             /\ last' = [Outcome("download", r.err, r.msg, NoName, r.written, 0)
                           EXCEPT !.arg = mode]
    /\ UNCHANGED <<cfg, alive, learner, disk, pc, locals, state_dict, weights, by_default,
                   peers>>

SpecDownload == InitDownload /\ [][Download]_vars

\* fit after fit on one learner, the validation accuracy varying.
FitStatsConfigs ==
    [optimizer_name : {"sgd"}, dataset_name : {"CASIA"},
     epochs : 1..MaxEpochs, start_epoch : StartEpochs,
     num_layers : {MaxLayers}, num_blocks : {MaxBlocks},
     layer_threshold : {0}, block_threshold : {0}]

InitFitStats ==
    \E c \in FitStatsConfigs, topo \in StartTopologies, d \in InitialDisks :
       Constructed(c, topo, d)

NextFitStats == InitModel \/ FitStats

SpecFitStats == InitFitStats /\ [][NextFitStats]_vars

\* The steps of network_builder, run after run.
NextBuilder ==
    \/ NB_Start \/ NB_AddLayer \/ NB_AddBlock \/ NB_Load \/ NB_Fit
    \/ NB_BlockCheck \/ NB_LayerCheck \/ NB_Return

SpecBuilder == InitBuilder /\ [][NextBuilder]_vars

\* Several learners in one process.  Line 60: the default of the topology
\* argument is one list object, made when the class is defined; line 95
\* stores the argument itself, and network_builder changes the list in
\* place (lines 488, 495, 522, 532).  The content of the default's list:
\* this learner's topology when it holds that list, else still empty (no
\* other learner of the model runs network_builder).
DefaultTopology == IF by_default THEN topology ELSE <<>>

\* self.topology of a later learner: the default's list, or its own.
TopologyOf(peer) == IF peer.by_default THEN DefaultTopology ELSE peer.own

\* Another ProgressiveSpatioTemporalBLNLearner(...) is constructed, with the
\* topology argument left out or given as a list of its own.
Construct ==
    /\ Idle
    /\ Len(peers) < MaxPeers
    /\ \E dflt \in BOOLEAN, topo \in StartTopologies :
         /\ dflt => topo = <<>>
         /\ peers' = Append(peers, [by_default |-> dflt, own |-> topo])
    /\ UNCHANGED <<cfg, alive, learner, disk, pc, locals, last, state_dict, weights,
                   datasets, by_default>>

\* The first learner of the process: with the default topology (the list is
\* still empty) or with a list of its own.
InitShared ==
    \E c \in BuilderConfigs, topo \in StartTopologies, dflt \in BOOLEAN :
       /\ dflt => topo = <<>>
       /\ ConstructedAs(c, topo, NoFiles, dflt)

NextShared == NextBuilder \/ Construct

SpecShared == InitShared /\ [][NextShared]_vars


\* ================================================================ claims
\* The relative improvement (loss_old - loss_new) / loss_old is below the
\* threshold th / ThDen (for loss_old = 0 and loss_new > 0 it is -inf).
Below(loss_old, loss_new, th) ==
    IF loss_old = 0
    THEN loss_new > 0
    ELSE (loss_old - loss_new) * ThDen < th * loss_old

\* C1: in network_builder, a block added after the first block of a layer
\* whose relative improvement falls below block_threshold is removed (the
\* layer's count is decremented by one) and the block loop of that layer is
\* left; no block is added afterwards to a layer whose growth was stopped;
\* the step after a layer's first block removes nothing.
C1_BlockRejected ==
    [][ /\ (pc = "block_check" /\ block_iter > 0
              /\ Below(loss_block_old, loss_block_new, cfg.block_threshold))
           => /\ topology' = [topology EXCEPT ![layer_iter + 1] = @ - 1]
              /\ pc' = "layer_check"
              /\ layer_iter \in stopped'
        /\ (pc = "block_check" /\ block_iter = 0) => topology' = topology
        /\ \A l \in stopped :
             (l + 1 <= Len(topology) /\ l + 1 <= Len(topology'))
                => topology'[l + 1] <= topology[l + 1]
      ]_vars

\* A block after the first was rejected for an improvement below the threshold.
C1_Witness ==
    /\ pc = "layer_check" /\ block_iter > 0 /\ layer_iter \in stopped
    /\ Below(loss_block_old, loss_block_new, cfg.block_threshold)
    /\ topology[layer_iter + 1] >= 1

\* C2: in network_builder, a layer after the first whose relative inter-layer
\* improvement falls below layer_threshold is removed from the topology, and
\* from there network_builder only returns: no layer is added and no fit is
\* run; the topology gets shorter only by this rule, never at the first layer.
C2_LayerRejected ==
    [][ /\ (pc = "layer_check" /\ layer_iter > 0
              /\ Below(loss_layer_old, loss_layer_new, cfg.layer_threshold))
           => /\ topology' = Front(topology)
              /\ pc' = "save_topology"
        /\ pc = "save_topology"
           => pc' = "idle" /\ topology' = topology /\ nfit' = nfit /\ model' = model
        /\ Len(topology') < Len(topology) => pc = "layer_check" /\ layer_iter > 0
      ]_vars

\* A layer after the first was rejected for an improvement below the threshold.
C2_Witness ==
    /\ pc = "save_topology" /\ layer_iter > 0 /\ layer_iter < cfg.num_layers
    /\ Below(loss_layer_old, loss_layer_new, cfg.layer_threshold)

\* C3: every entry of the topology is a positive block count whenever
\* network_builder has built a model, is about to load into it or train it
\* (the fit saves its checkpoint under that topology), and when it returns.
C3_PositiveEntries ==
    (pc \in {"load", "fit", "block_check"} \/ (pc = "idle" /\ last.op = "network_builder"))
        => \A i \in 1..Len(topology) : topology[i] >= 1

\* C4: a fit that trains at least one epoch saves exactly one checkpoint, the
\* weights file and its sidecar, after all its training passes, named after
\* len(topology) and topology[-1]; the checkpoint is a PyTorch one and the
\* learner holds no ONNX session afterwards.
C4_FitSavesOneCheckpoint ==
    (last.op = "fit" /\ last.trained >= 1)
        => LET name == CheckpointName(topology)
           IN  /\ last.err = "none"
               /\ last.trained = cfg.epochs - cfg.start_epoch
               /\ last.written = <<FilePath(name, "pt"), FilePath(name, "json")>>
               /\ last.saved_at = <<cfg.epochs - cfg.start_epoch>>
               /\ name \in DOMAIN disk.json /\ name \in DOMAIN disk.pt
               /\ disk.json[name].format = "pt"
               /\ disk.json[name].optimized = FALSE
               /\ disk.pt[name] = StateDict(model)
               /\ ort_session = None

\* A fit of two epochs, run by a learner that had been optimized to ONNX.
C4_Witness ==
    /\ last.op = "fit" /\ last.trained = 2 /\ disk.temp # None
    /\ CheckpointName(topology) \in DOMAIN disk.pt

\* C5: the sidecar a save writes has exactly the seven keys; model_paths holds
\* the one weights path written, a file that exists; format is 'pt' and
\* optimized false when the learner holds no ONNX session, 'onnx' and true
\* when it holds one.
C5_Sidecar ==
    (last.op = "save" /\ last.err = "none")
        => LET meta == disk.json[last.name]
           IN  /\ DOMAIN meta = MetadataKeys
               /\ Len(meta.model_paths) = 1
               /\ last.written = <<meta.model_paths[1], FilePath(last.name, "json")>>
               /\ meta.framework = "pytorch"
               /\ ort_session = None
                    => /\ meta.format = "pt" /\ meta.optimized = FALSE
                       /\ meta.model_paths = <<FilePath(last.name, "pt")>>
                       /\ last.name \in DOMAIN disk.pt
               /\ ort_session # None
                    => /\ meta.format = "onnx" /\ meta.optimized = TRUE
                       /\ meta.model_paths = <<FilePath(last.name, "onnx")>>
                       /\ last.name \in DOMAIN disk.onnx

\* A save of an optimized learner.
C5_Witness ==
    last.op = "save" /\ last.err = "none" /\ ort_session # None

\* C6: fit on a learner whose optimizer_name is neither 'sgd' nor 'adam'
\* raises ValueError, before any training pass and before any checkpoint.
C6_UnknownOptimizer ==
    (last.op = "fit" /\ cfg.optimizer_name \notin {"sgd", "adam"})
        => last.err = "ValueError" /\ last.trained = 0 /\ last.written = <<>>

\* C7: a dataset name that is None or not one of casia, ck+, afew makes the
\* constructor raise ValueError; a name the constructor accepts is not
\* rejected later by optimize.
C7_UnknownDataset ==
    /\ (last.op = "__init__" /\ Lower(cfg.dataset_name) \notin {"casia", "ck+", "afew"})
          => last.err = "ValueError"
    /\ (last.op = "optimize" /\ model # None)
          => last.msg # "not a valid dataset name"

\* C8: while the topology is empty, init_model raises ValueError, and so does
\* the load of a PyTorch checkpoint (sidecar not optimized, weights file
\* there) into a learner without a model; the learner is left without one.
C8_EmptyTopology ==
    Len(topology) = 0
        => /\ model = None
           /\ last.op = "init_model" => last.err = "ValueError"
           /\ (last.op = "load" /\ last.name \in DOMAIN disk.json
                 /\ ~disk.json[last.name].optimized /\ last.name \in DOMAIN disk.pt)
                => last.err = "ValueError"

\* A PyTorch checkpoint was loaded while the topology was empty.
C8_Witness ==
    /\ Len(topology) = 0 /\ last.op = "load" /\ last.err = "ValueError"
    /\ last.name \in DOMAIN disk.pt

\* The files load(name) reads are missing: the sidecar, or the weights file
\* the sidecar stands for.
FilesMissing(d, name) ==
    \/ name \notin DOMAIN d.json
    \/ (~d.json[name].optimized /\ name \notin DOMAIN d.pt)
    \/ (d.json[name].optimized /\ name \notin DOMAIN d.onnx)

Annotated == "pretrained .pt file must be placed in path"

\* C9 as stated: a load whose files are missing raises FileNotFoundError
\* with the annotated message.
C9_MissingFilesAnnotated ==
    (last.op = "load" /\ FilesMissing(disk, last.name))
        => last.err = "FileNotFoundError" /\ last.msg = Annotated

\* C9, amended: a load whose sidecar is there and says not optimized, and
\* whose '.pt' file is missing, raises FileNotFoundError with the annotated
\* message; a load whose sidecar is missing raises FileNotFoundError without
\* the annotation; both leave the model and the ONNX session unchanged.
C9_MissingWeightsAnnotated ==
    [][ last'.op = "load"
        => LET name == last'.name
           IN  /\ (name \in DOMAIN disk.json /\ ~disk.json[name].optimized
                     /\ name \notin DOMAIN disk.pt)
                  => /\ last'.err = "FileNotFoundError" /\ last'.msg = Annotated
                     /\ model' = model /\ ort_session' = ort_session
               /\ name \notin DOMAIN disk.json
                  => /\ last'.err = "FileNotFoundError" /\ last'.msg # Annotated
                     /\ model' = model /\ ort_session' = ort_session
      ]_vars

\* A load found the sidecar and not the weights file.
C9_Witness ==
    /\ last.op = "load" /\ last.err = "FileNotFoundError" /\ last.msg = Annotated
    /\ last.name \in DOMAIN disk.json /\ last.name \notin DOMAIN disk.pt

\* C10: infer or save on a learner with neither a model nor an ONNX session
\* raises UserWarning, changes nothing of the learner and writes no file.
C10_NothingLoaded ==
    [][ (model = None /\ ort_session = None /\ last'.op \in {"infer", "save"})
        => /\ last'.err = "UserWarning"
           /\ last'.written = <<>>
           /\ UNCHANGED <<cfg, topology, model, ort_session, model_train_state,
                          optimizer_, classes_dict, disk>>
      ]_vars

\* infer or save was called with nothing loaded.
C10_Witness ==
    /\ last.op \in {"infer", "save"} /\ last.err = "UserWarning"
    /\ model = None /\ ort_session = None

\* C11: after optimize returns normally, which it does only on a learner
\* that holds a model and no ONNX session, the learner holds an ONNX session;
\* optimize on a learner with no model, or with an ONNX session already,
\* raises UserWarning and leaves model and ort_session as they were.
C11_Optimize ==
    [][ last'.op = "optimize"
          => /\ last'.err = "none"
                  => (model # None /\ ort_session = None /\ ort_session' # None)
             /\ (model = None \/ ort_session # None)
                  => /\ last'.err = "UserWarning"
                     /\ model' = model
                     /\ ort_session' = ort_session
      ]_vars

\* optimize returned on a learner with a model: a session is held.
C11_Witness ==
    last.op = "optimize" /\ last.err = "none" /\ model # None /\ ort_session # None

\* C12 as stated: after a learner holding a model has saved to a name, the
\* model is dropped and load is called with that name, the learner holds a
\* model again.
C12_RoundTrip ==
    [][ (last.op = "discard" /\ last.name # NoName
           /\ last'.op = "load" /\ last'.name = last.name)
          => model' # None
      ]_vars

\* C12, amended: after a learner holding a model and no ONNX session has
\* saved to a name, the model is dropped and load is called with that name,
\* load returns and the learner holds a model again, built for the
\* learner's topology.
C12_RoundTripPt ==
    [][ (last.op = "discard" /\ last.name # NoName /\ ort_session = None
           /\ last'.op = "load" /\ last'.name = last.name)
          => /\ last'.err = "none"
             /\ model' # None
             /\ model'.topology = topology
      ]_vars

\* Save of a PyTorch model, the model dropped, the same name loaded: a
\* model is held again.
C12_Witness ==
    /\ last.op = "load" /\ last.round_trip /\ last.err = "none"
    /\ ~disk.json[last.name].optimized
    /\ ort_session = None /\ model # None

\* C13: after load of a PyTorch checkpoint returns, every parameter of the
\* model whose key is also in the checkpoint (same shape) holds the
\* checkpoint's value, whatever the parameter's name and whatever the
\* topology's last block count.
C13_LoadedWholesale ==
    (last.op = "load" /\ last.err = "none" /\ DOMAIN state_dict = Parameters)
       => \A key \in Parameters : key \in weights => state_dict[key] = "checkpoint"

\* C14: in every state where save takes the ONNX branch (the learner holds
\* an ONNX session), including after load of an optimized model, the file
\* onnx_model_temp.onnx written by this learner's optimize exists and is the
\* model of the current session, so that save returns having copied it.
C14_TempIsSession ==
    (last.op = "save" /\ ort_session # None)
       => /\ last.err = "none"
          /\ disk.temp # None
          /\ ort_session.path = TempOnnx

\* C15 as stated: download stores every file it fetches directly under
\* <path>/<dataset_name>/, creating both directories when missing, and each
\* stored file is named <split>.<ext>, split in {train, val}, ext in
\* {npy, pkl}.
C15_SplitDotExt ==
    [][ last'.op = "download"
          => \A f \in datasets'.files \ datasets.files :
               /\ \E p \in {ParentDir, "data"} :
                     /\ f[1] = <<p, cfg.dataset_name>>
                     /\ {<<p>>, <<p, cfg.dataset_name>>} \subseteq datasets'.dirs
               /\ f[2] \in {"train.npy", "train.pkl", "val.npy", "val.pkl"}
      ]_vars

\* C15, amended: download stores every file it fetches directly under
\* <path>/<dataset_name>/ (path being temp_path when not given), both
\* directories existing afterwards, and each stored file is named
\* train.npy, train_labels.pkl, val.npy or val_labels.pkl; what it returns
\* having fetched is exactly what it added.
C15_StoredFiles ==
    [][ last'.op = "download"
          => /\ \A f \in datasets'.files \ datasets.files :
                  /\ \E p \in {ParentDir, "data"} :
                        /\ f[1] = <<p, cfg.dataset_name>>
                        /\ {<<p>>, <<p, cfg.dataset_name>>} \subseteq datasets'.dirs
                  /\ f[2] \in {"train.npy", "train_labels.pkl", "val.npy", "val_labels.pkl"}
             /\ datasets'.files \ datasets.files
                   = {last'.written[i] : i \in DOMAIN last'.written}
             /\ datasets.files \subseteq datasets'.files
      ]_vars

\* download has fetched the two files of a split into a directory it made.
C15_Witness ==
    /\ last.op = "download" /\ last.err = "none" /\ Len(last.written) = 2
    /\ \A i \in 1..2 : last.written[i] \in datasets.files

\* C16: download accepts only the modes train_data, val_data and test_data:
\* with one of them it returns, with any other mode it raises UserWarning
\* and no directory has been created and no file fetched.
C16_ModeChecked ==
    [][ last'.op = "download"
          => /\ last'.arg \in {"train_data", "val_data", "test_data"} => last'.err = "none"
             /\ last'.arg \notin {"train_data", "val_data", "test_data"}
                  => /\ last'.err = "UserWarning"
                     /\ datasets' = datasets
                     /\ last'.written = <<>>
      ]_vars

\* download refused a mode on a learner none of whose directories exists.
C16_Witness ==
    /\ last.op = "download" /\ last.err = "UserWarning"
    /\ last.arg \notin ValidModes
    /\ datasets = NoDatasets

\* The largest of the accuracies of the entries of eval_results (0 for none).
RECURSIVE MaxAccuracy(_)
MaxAccuracy(results) ==
    IF Len(results) = 0 THEN 0
    ELSE LET rest == MaxAccuracy(Tail(results))
         IN  IF Head(results).accuracy > rest THEN Head(results).accuracy ELSE rest

\* C17: when fit returns, eval_results holds exactly one entry per trained
\* epoch, epochs - start_epoch of them in epoch order, and best_accuracy is
\* the maximum accuracy among those entries, whatever best_acc was before
\* the call; it is also what best_acc holds.
C17_FitStats ==
    (last.op = "fit" /\ last.err = "none")
       => /\ Len(last.eval_results) = cfg.epochs - cfg.start_epoch
          /\ Len(last.eval_results) = last.trained
          /\ \A i \in DOMAIN last.eval_results :
                last.eval_results[i].epoch = cfg.start_epoch + i - 1
          /\ last.best_accuracy = MaxAccuracy(last.eval_results)
          /\ best_acc = last.best_accuracy

\* fit returned after two epochs, the first of which was the more accurate.
C17_Witness ==
    /\ last.op = "fit" /\ last.err = "none"
    /\ Len(last.eval_results) = 2
    /\ last.eval_results[1].accuracy > last.eval_results[2].accuracy
    /\ last.best_accuracy = last.eval_results[1].accuracy

\* C18: in network_builder every fit except the run's first follows
\* init_model and a load that returned, of a checkpoint an earlier fit of the
\* same run saved, the one of the most recently kept topology; the first fit
\* follows init_model alone; a load never targets a name that was not saved.
C18_LoadsKeptCheckpoint ==
    /\ (pc = "fit" /\ nfit = 0) => last.op = "init_model"
    /\ (pc = "fit" /\ nfit > 0) => last.op = "load"
    /\ (last.op = "load" /\ pc \in {"fit", "idle"})
          => /\ last.err = "none"
             /\ last.name \in run_saved
             /\ last.name = CheckpointName(kept)

\* The relative improvement (loss_old - loss_new) / loss_old is a number
\* that exceeds the threshold th / ThDen.
Exceeds(loss_old, loss_new, th) ==
    loss_old # 0 /\ (loss_old - loss_new) * ThDen > th * loss_old

\* The relative improvement is exactly the threshold th / ThDen.
Equals(loss_old, loss_new, th) ==
    loss_old # 0 /\ (loss_old - loss_new) * ThDen = th * loss_old

\* The block loop goes on from a kept block.
BlockKept ==
    /\ topology' = topology
    /\ block_iter' = block_iter + 1
    /\ pc' = IF block_iter + 1 < cfg.num_blocks THEN "add_block" ELSE "layer_check"

\* The layer loop goes on from a kept layer.
LayerKept ==
    /\ topology' = topology
    /\ layer_iter' = layer_iter + 1
    /\ pc' = IF layer_iter + 1 < cfg.num_layers THEN "add_layer" ELSE "save_topology"

\* C19 as stated: a block (layer) after the first whose relative improvement
\* equals or exceeds block_threshold (layer_threshold) is kept, and growth
\* continues until num_blocks (num_layers) is reached.
C19_KeptAtThreshold ==
    [][ /\ (pc = "block_check" /\ block_iter > 0
              /\ (\/ Exceeds(loss_block_old, loss_block_new, cfg.block_threshold)
                  \/ Equals(loss_block_old, loss_block_new, cfg.block_threshold)))
           => BlockKept
        /\ (pc = "layer_check" /\ layer_iter > 0
              /\ (\/ Exceeds(loss_layer_old, loss_layer_new, cfg.layer_threshold)
                  \/ Equals(loss_layer_old, loss_layer_new, cfg.layer_threshold)))
           => LayerKept
      ]_vars

\* C19, amended: a block (layer) after the first whose relative improvement
\* exceeds block_threshold (layer_threshold) is kept and growth continues
\* until num_blocks (num_layers) is reached; one whose relative improvement
\* equals the threshold is removed, like one below it; the first block
\* (layer) is always kept.
C19_KeptAboveThreshold ==
    [][ /\ (pc = "block_check" /\ block_iter > 0
              /\ Exceeds(loss_block_old, loss_block_new, cfg.block_threshold))
           => BlockKept
        /\ (pc = "block_check" /\ block_iter > 0
              /\ Equals(loss_block_old, loss_block_new, cfg.block_threshold))
           => /\ topology' = [topology EXCEPT ![layer_iter + 1] = @ - 1]
              /\ pc' = "layer_check"
        /\ (pc = "block_check" /\ block_iter = 0) => BlockKept
        /\ (pc = "layer_check" /\ layer_iter > 0
              /\ Exceeds(loss_layer_old, loss_layer_new, cfg.layer_threshold))
           => LayerKept
        /\ (pc = "layer_check" /\ layer_iter > 0
              /\ Equals(loss_layer_old, loss_layer_new, cfg.layer_threshold))
           => /\ topology' = Front(topology)
              /\ pc' = "save_topology"
        /\ (pc = "layer_check" /\ layer_iter = 0) => LayerKept
      ]_vars

\* A block after the first was removed for an improvement equal to the
\* threshold.
C19_Witness ==
    /\ pc = "layer_check" /\ block_iter > 0 /\ layer_iter \in stopped
    /\ Equals(loss_block_old, loss_block_new, cfg.block_threshold)
    /\ Len(topology) = layer_iter + 1
    /\ topology[layer_iter + 1] = block_iter

\* C20: the loss of a rejected block never serves as a baseline: a block
\* after the first is compared with the loss of the last kept block of its
\* layer, and the comparison between layers takes the loss of the last kept
\* block of layer L against that of the last kept block of layer L - 1.
C20_KeptBaselines ==
    /\ (pc = "block_check" /\ block_iter > 0)
          => loss_block_old = kept_loss[layer_iter + 1]
    /\ pc = "layer_check"
          => loss_layer_new = kept_loss[layer_iter + 1]
    /\ (pc = "layer_check" /\ layer_iter > 0)
          => loss_layer_old = kept_loss[layer_iter]

\* A layer after the first is compared after one of its blocks was
\* rejected with a loss that is not the layer's.
C20_Witness ==
    /\ pc = "layer_check" /\ layer_iter > 0 /\ layer_iter \in stopped
    /\ loss_block_new # loss_layer_new
    /\ loss_layer_new # loss_layer_old

\* C21: whenever infer or eval runs the PyTorch model without Monte Carlo
\* dropout being asked for, every dropout module of the model is in
\* evaluation mode, whatever calls came before.
C21_DropoutOnlyOnRequest ==
    [][ /\ (last'.op = "infer" /\ last'.arg = "" /\ ort_session = None /\ model # None)
           => ~model'.dropout
        /\ (last'.op = "eval" /\ last'.arg = "" /\ model # None)
           => ~model'.dropout
      ]_vars

\* network_builder has returned the topology (it has written Topology.npy).
Returned == pc = "idle" /\ last.op = "network_builder" /\ last.written # <<>>

\* The steps a run of network_builder may still take, counted generously:
\* four per block still to come in the layer, and a layer's worth per layer
\* still to come.
LayerSteps == 4 * cfg.num_blocks + 2

StepsLeft ==
    LET after_layer == 2 + (cfg.num_layers - layer_iter - 1) * LayerSteps
        in_block == after_layer + 4 * (cfg.num_blocks - block_iter)
    IN  CASE pc = "idle" -> 0
          [] pc = "save_topology" -> 1
          [] pc = "layer_check" -> after_layer
          [] pc = "add_layer" -> after_layer + 4 * cfg.num_blocks + 1
          [] pc = "add_block" -> in_block
          [] pc = "load" -> in_block - 1
          [] pc = "fit" -> in_block - 2
          [] pc = "block_check" -> in_block - 3

\* C22: network_builder terminates: every step of a run lowers the number
\* of steps it may still take, which is never negative; a run makes at most
\* num_layers * num_blocks fit calls; the topology it returns, when started
\* from an empty one, has at most num_layers entries, each at most
\* num_blocks; once the layer loop is left (a layer was rejected, or
\* num_layers is reached) no fit is run and the run returns.
C22_Terminates ==
    /\ [](StepsLeft >= 0)
    /\ [][pc # "idle" => StepsLeft' < StepsLeft]_vars
    /\ [](nfit <= cfg.num_layers * cfg.num_blocks)
    /\ []((Returned /\ start_topology = <<>>)
            => /\ Len(topology) <= cfg.num_layers
               /\ \A i \in DOMAIN topology : topology[i] <= cfg.num_blocks)
    /\ [][pc = "save_topology" => (pc' = "idle" /\ nfit' = nfit)]_vars

\* A run from an empty topology has returned the largest topology allowed,
\* after as many fits as there are blocks.
C22_Witness ==
    /\ Returned /\ start_topology = <<>>
    /\ cfg.num_layers = MaxLayers /\ cfg.num_blocks = MaxBlocks
    /\ Len(topology) = cfg.num_layers
    /\ \A i \in DOMAIN topology : topology[i] = cfg.num_blocks
    /\ nfit = cfg.num_layers * cfg.num_blocks

\* C23: when network_builder returns, the model in memory is one built for
\* the returned topology: as many layers, and as many blocks in each layer,
\* also when the last added block or the last added layer was rejected.
C23_ModelMatchesTopology ==
    Returned => (model # None /\ model.topology = topology)

\* C25: after a load of a model whose metadata says optimized is false, the
\* next infer runs the loaded PyTorch model and not an ONNX session, whatever
\* came before the load (an optimize, or a load of an optimized model).
C25_InferRunsLoadedModel ==
    [][ ( /\ last.op = "load" /\ last.err = "none"
          /\ ~disk.json[last.name].optimized
          /\ last'.op = "infer" )
        => (ort_session = None /\ model # None)
      ]_vars

\* C26: in every state where model_train_state is False the model is in
\* evaluation mode, so that infer, when it runs the PyTorch model, runs it
\* in evaluation mode, also after a fit, an init_model or a load that
\* follows an earlier infer.
C26_FlagTracksMode ==
    (model # None /\ ~model_train_state) => ~model.training

\* C24: learner instances do not share topology state: no step of
\* network_builder on this learner changes the topology of another learner,
\* and a learner constructed with the default arguments starts with an empty
\* topology.
C24_TopologyNotShared ==
    [][ /\ \A i \in DOMAIN peers : TopologyOf(peers[i])' = TopologyOf(peers[i])
        /\ (Len(peers') > Len(peers) /\ Last(peers').by_default)
             => TopologyOf(Last(peers))' = <<>>
      ]_vars

====
